---------------------------- MODULE Spec2Model ----------------------------
(***************************************************************************)
(* The members-directory build scripts as state machines:                  *)
(*   scripts/build_members.py  build()  (prog = "build_members")           *)
(*   scripts/build_site.py     main()   (prog = "build_site")              *)
(* Strings are TLA+ strings handled character by character (Len, SubSeq,   *)
(* \o), so strip, lower, split, startswith and the stem of a file name are *)
(* computed the way the Python code computes them.                         *)
(***************************************************************************)
EXTENDS Naturals, Sequences, FiniteSets, TLC

VARIABLES
    prog,       \* which script runs: "build_members" | "build_site"
    pc,         \* position of the script
    fs,         \* the file system the run starts from: directories and the listing
    idx,        \* number of files the loop of _collect_members / main has consumed
    members,    \* the list `members` of _collect_members / build_members_json
    notes,      \* diagnostics: `notes` of build_members, the printed lines of build_site
    written,    \* output files written so far, in order
    exit,       \* how the process ended: "running", "0", "1", "SystemExit", "uncaught"
    locals,     \* locals of the last _normalize_member / validate_member_data call
    valid_members,  \* the flag `valid_members` of build_site.main
    built       \* number of files the loop of build_members_json has consumed

vars == <<prog, pc, fs, idx, members, notes, written, exit, locals, valid_members, built>>

----------------------------------------------------------------------------
(* Bounds of the model                                                      *)

\* most files in a members directory whose files are drawn from the core documents
MaxFiles == 2

\* most keys of a build_members record drawn key by key
MaxKeys == 2

\* most entries of a materials list drawn entry by entry
MaxMaterials == 2

----------------------------------------------------------------------------
(* Python values                                                            *)

None == [t |-> "null", v |-> ""]
Str(s) == [t |-> "str", v |-> s]
Int(digits) == [t |-> "int", v |-> digits]
List(items) == [t |-> "list", v |-> items]
Map(pairs) == [t |-> "map", v |-> pairs]

\* bool(x): None, "", 0, [] and {} are falsy
Truthy(x) ==
    CASE x.t = "null" -> FALSE
      [] x.t = "int" -> x.v # "0"
      [] OTHER -> Len(x.v) > 0

\* x or y
Or(x, y) == IF Truthy(x) THEN x ELSE y

\* str(x) for the scalars the records hold
PyStr(x) ==
    CASE x.t = "str" -> x.v
      [] x.t = "int" -> x.v
      [] x.t = "null" -> "None"
      [] OTHER -> "<repr>"

----------------------------------------------------------------------------
(* str methods                                                              *)

\* the characters of the model's strings in code point order
CodePoints == " !-./0123456789:@ABCDEFGHIJKLMNOPQRSTUVWXYZ_abcdefghijklmnopqrstuvwxyz"
UpperCase == "ABCDEFGHIJKLMNOPQRSTUVWXYZ"
LowerCase == "abcdefghijklmnopqrstuvwxyz"
Digits == "0123456789"

Char(s, i) == SubSeq(s, i, i)

IndexIn(s, c) ==
    IF \E i \in 1..Len(s) : Char(s, i) = c
    THEN CHOOSE i \in 1..Len(s) : Char(s, i) = c
    ELSE 0

Ord(c) == IndexIn(CodePoints, c)

IsSpace(c) == c = " "

RECURSIVE LStrip(_)
LStrip(s) == IF Len(s) > 0 /\ IsSpace(Head(s)) THEN LStrip(Tail(s)) ELSE s

RECURSIVE RStrip(_)
RStrip(s) ==
    IF Len(s) > 0 /\ IsSpace(Char(s, Len(s)))
    THEN RStrip(SubSeq(s, 1, Len(s) - 1))
    ELSE s

\* str.strip()
Strip(s) == RStrip(LStrip(s))

LowerChar(c) ==
    LET i == IndexIn(UpperCase, c) IN IF i = 0 THEN c ELSE Char(LowerCase, i)

\* str.lower()
RECURSIVE Lower(_)
Lower(s) == IF Len(s) = 0 THEN "" ELSE LowerChar(Head(s)) \o Lower(Tail(s))

\* str.strip("-")
RECURSIVE StripDash(_)
StripDash(s) ==
    IF Len(s) > 0 /\ Head(s) = "-" THEN StripDash(Tail(s))
    ELSE IF Len(s) > 0 /\ Char(s, Len(s)) = "-" THEN StripDash(SubSeq(s, 1, Len(s) - 1))
    ELSE s

\* str.split(): the whitespace-delimited tokens
RECURSIVE Split(_)
Split(s) ==
    LET t == LStrip(s)
        n == IF \E i \in 1..Len(t) : IsSpace(Char(t, i))
             THEN (CHOOSE i \in 1..Len(t) :
                      IsSpace(Char(t, i)) /\ \A j \in 1..(i - 1) : ~IsSpace(Char(t, j))) - 1
             ELSE Len(t)
    IN IF Len(t) = 0 THEN <<>>
       ELSE <<SubSeq(t, 1, n)>> \o Split(SubSeq(t, n + 1, Len(t)))

\* str.startswith(p)
StartsWith(s, p) == Len(s) >= Len(p) /\ SubSeq(s, 1, Len(p)) = p

\* str.endswith(p)
EndsWith(s, p) == Len(s) >= Len(p) /\ SubSeq(s, Len(s) - Len(p) + 1, Len(s)) = p

\* s < t for Python strings: lexicographic by code point
RECURSIVE StrLess(_, _)
StrLess(s, t) ==
    IF Len(t) = 0 THEN FALSE
    ELSE IF Len(s) = 0 THEN TRUE
    ELSE IF Head(s) = Head(t) THEN StrLess(Tail(s), Tail(t))
    ELSE Ord(Head(s)) < Ord(Head(t))

----------------------------------------------------------------------------
(* dicts: functions from keys to values                                     *)

EmptyDict == <<>>

DictGet(d, k, default) == IF k \in DOMAIN d THEN d[k] ELSE default

DictSet(d, k, val) == [x \in (DOMAIN d) \cup {k} |-> IF x = k THEN val ELSE d[x]]

\* the keys of a parsed mapping, a sequence of <<key, value>> pairs in file order
Keys(pairs) == {pairs[i][1] : i \in 1..Len(pairs)}

\* key in mapping
Has(m, k) == k \in Keys(m.v)

\* mapping[key]
Get(m, k) == LET i == CHOOSE i \in 1..Len(m.v) : m.v[i][1] = k IN m.v[i][2]

----------------------------------------------------------------------------
(* scripts/build_members.py                                                 *)

KEY_MAP ==
    << <<"name", "Name">>,
       <<"email", "Email">>,
       <<"campus", "Campus">>,
       <<"college", "College">>,
       <<"department", "Department">>,
       <<"dept", "Department">>,
       <<"title", "Title">>,
       <<"research interests", "Research_Interests">>,
       <<"research_interests", "Research_Interests">>,
       <<"research", "Research_Interests">>,
       <<"focus", "Research_Interests">>,
       <<"teaching interests", "Teaching_Interests">>,
       <<"teaching_interests", "Teaching_Interests">>,
       <<"sustainability contributions", "Sustainability_Contributions">>,
       <<"sustainability_contributions", "Sustainability_Contributions">>,
       <<"notes", "Notes">>,
       <<"photo", "Photo">>,
       <<"image", "Photo">>,
       <<"website", "Website">>,
       <<"url", "Website">>,
       <<"id", "id">>,
       <<"slug", "id">> >>

RECOMMENDED_FIELDS == <<"Name", "Email", "Campus", "College", "Department", "Title">>

\* KEY_MAP.get(k): the canonical key, or "" for None
KeyMapGet(k) ==
    IF \E i \in 1..Len(KEY_MAP) : KEY_MAP[i][1] = k
    THEN KEY_MAP[CHOOSE i \in 1..Len(KEY_MAP) : KEY_MAP[i][1] = k][2]
    ELSE ""

\* one diagnostic: an entry of `notes`, or a printed "Error: <filename> ..." line
Diag(filename, kind, fields, pos) ==
    [file |-> filename, kind |-> kind, fields |-> fields, pos |-> pos]

\* the outcome of a call that may raise
Returned(val) == [raised |-> FALSE, exc |-> "", val |-> val]
Raised(exc) == [raised |-> TRUE, exc |-> exc, val |-> ""]

\* line 101, re.sub(r"[^a-z0-9\s-_]", "", text).  In the character class the
\* text "\s-_" is a range whose lower end is the class escape \s; Python's re
\* refuses it when it compiles the pattern ("bad character range \s-_"), so
\* the call raises re.error whatever the text is.
SubDisallowed(text) == Raised("re.error: bad character range \\s-_")

\* line 102, re.sub(r"[\s_]+", "-", text)
RECURSIVE SubSeparators(_)
SubSeparators(s) ==
    LET sep(c) == IsSpace(c) \/ c = "_" IN
    IF Len(s) = 0 THEN ""
    ELSE IF sep(Head(s))
         THEN IF Len(s) > 1 /\ sep(Char(s, 2))
              THEN SubSeparators(Tail(s))
              ELSE "-" \o SubSeparators(Tail(s))
         ELSE Head(s) \o SubSeparators(Tail(s))

\* line 103, re.sub(r"-+", "-", text)
RECURSIVE SubDashes(_)
SubDashes(s) ==
    IF Len(s) = 0 THEN ""
    ELSE IF Head(s) = "-" /\ Len(s) > 1 /\ Char(s, 2) = "-"
         THEN SubDashes(Tail(s))
         ELSE Head(s) \o SubDashes(Tail(s))

\* _slugify(text), text a str or None
_slugify(text) ==
    LET t0 == Lower(Strip(Or(text, Str("")).v))
        r1 == SubDisallowed(t0)
    IN IF r1.raised THEN r1
       ELSE LET t3 == StripDash(SubDashes(SubSeparators(r1.val)))
            IN Returned(IF Len(t3) > 0 THEN t3 ELSE "member")

\* a slip: the key is looked up as written, neither trimmed nor lower-cased
RECURSIVE KeyLoopVerbatim(_, _, _)
KeyLoopVerbatim(pairs, norm, extras) ==
    IF Len(pairs) = 0 THEN [norm |-> norm, extras |-> extras]
    ELSE LET k == pairs[1][1]
             val == pairs[1][2]
             ck == KeyMapGet(k)
         IN IF ck # ""
            THEN KeyLoopVerbatim(Tail(pairs), DictSet(norm, ck, val), extras)
            ELSE KeyLoopVerbatim(Tail(pairs), norm, DictSet(extras, k, val))

\* lines 116-121: the key loop over d.items(), from the dicts built so far
RECURSIVE KeyLoop(_, _, _)
KeyLoop(pairs, norm, extras) ==
    IF Len(pairs) = 0 THEN [norm |-> norm, extras |-> extras]
    ELSE LET k == pairs[1][1]
             val == pairs[1][2]
             ck == KeyMapGet(Lower(Strip(k)))
         IN IF ck # ""
            THEN KeyLoop(Tail(pairs), DictSet(norm, ck, val), extras)
            ELSE KeyLoop(Tail(pairs), norm, DictSet(extras, k, val))

\* lines 131-133: one warning per recommended field that is missing or blank
RECURSIVE Warnings(_, _)
Warnings(norm, fields) ==
    IF Len(fields) = 0 THEN <<>>
    ELSE (IF Len(Strip(PyStr(Or(DictGet(norm, Head(fields), None), Str(""))))) = 0
          THEN <<"missing " \o Head(fields)>>
          ELSE <<>>) \o Warnings(norm, Tail(fields))

\* norm.get(field) or None
FieldOrNone(norm, field) == Or(DictGet(norm, field, None), None)

\* line 123 (and 124 for "Email"): str(norm.get(field, "") or "").strip()
StrippedField(norm, field) == Strip(PyStr(Or(DictGet(norm, field, Str("")), Str(""))))

\* line 127: norm.get("id") or email or name
IdSource(norm, email, name) == Or(Or(DictGet(norm, "id", None), Str(email)), Str(name))

\* line 128: _slugify(str(id_src)) if id_src else _slugify(name)
MemberId(id_src, name) ==
    IF Truthy(id_src) THEN _slugify(Str(PyStr(id_src))) ELSE _slugify(Str(name))

\* lines 135-150: Member(...)
Member(mid, name, email, norm, extras) ==
    [id |-> mid,
     Name |-> IF Len(name) > 0 THEN name ELSE "Unnamed Member",
     Email |-> Or(Str(email), None),
     Campus |-> FieldOrNone(norm, "Campus"),
     College |-> FieldOrNone(norm, "College"),
     Department |-> FieldOrNone(norm, "Department"),
     Title |-> FieldOrNone(norm, "Title"),
     Research_Interests |-> FieldOrNone(norm, "Research_Interests"),
     Teaching_Interests |-> FieldOrNone(norm, "Teaching_Interests"),
     Sustainability_Contributions |-> FieldOrNone(norm, "Sustainability_Contributions"),
     Notes |-> FieldOrNone(norm, "Notes"),
     Photo |-> FieldOrNone(norm, "Photo"),
     Website |-> FieldOrNone(norm, "Website"),
     extras |-> extras]

\* lines 128-151, from the locals of lines 116-127: the exception of _slugify,
\* or (m, warnings); the locals are kept beside the outcome
NormalizeWithId(norm, extras, name, email, mid) ==
    [norm |-> norm, extras |-> extras, name |-> name, email |-> email, slug |-> mid,
     raised |-> mid.raised, exc |-> mid.exc,
     m |-> IF mid.raised THEN <<>> ELSE Member(mid.val, name, email, norm, extras),
     warnings |-> IF mid.raised THEN <<>> ELSE Warnings(norm, RECOMMENDED_FIELDS)]

\* lines 123-151, from the dicts the key loop built
NormalizeNamed(norm, extras, name, email) ==
    NormalizeWithId(norm, extras, name, email, MemberId(IdSource(norm, email, name), name))

NormalizeKeyed(kl) ==
    NormalizeNamed(kl.norm, kl.extras, StrippedField(kl.norm, "Name"), StrippedField(kl.norm, "Email"))

\* _normalize_member(d), d the dict of one file
_normalize_member(d) == NormalizeKeyed(KeyLoop(d.v, EmptyDict, EmptyDict))

----------------------------------------------------------------------------
(* sorted() and list.sort(): stable, by a key that is a tuple of strings    *)

RECURSIVE KeyLess(_, _)
KeyLess(k1, k2) ==
    IF Len(k2) = 0 THEN FALSE
    ELSE IF Len(k1) = 0 THEN TRUE
    ELSE IF Head(k1) = Head(k2) THEN KeyLess(Tail(k1), Tail(k2))
    ELSE StrLess(Head(k1), Head(k2))

\* insert <<key, item>> behind every entry whose key is not greater
RECURSIVE InsertByKey(_, _)
InsertByKey(sorted, p) ==
    IF Len(sorted) = 0 THEN <<p>>
    ELSE IF KeyLess(p[1], Head(sorted)[1]) THEN <<p>> \o sorted
    ELSE <<Head(sorted)>> \o InsertByKey(Tail(sorted), p)

RECURSIVE SortedByKey(_)
SortedByKey(pairs) ==
    IF Len(pairs) = 0 THEN <<>>
    ELSE InsertByKey(SortedByKey(SubSeq(pairs, 1, Len(pairs) - 1)), pairs[Len(pairs)])

Items(pairs) == [i \in 1..Len(pairs) |-> pairs[i][2]]

\* Path.glob("*" + suffix): the listed files whose name ends with suffix
RECURSIVE GlobSuffix(_, _)
GlobSuffix(listing, suffix) ==
    IF Len(listing) = 0 THEN <<>>
    ELSE (IF EndsWith(Head(listing).name, suffix) THEN <<Head(listing)>> ELSE <<>>)
         \o GlobSuffix(Tail(listing), suffix)

----------------------------------------------------------------------------
(* build_members.py: _load_yaml, _collect_members, the writers, build       *)

\* a file whose text is not valid YAML
Invalid == [t |-> "invalid", v |-> ""]

\* _load_yaml(p): yaml.safe_load(f) or {}
_load_yaml(content) ==
    IF content.t = "invalid" THEN Raised("yaml.YAMLError")
    ELSE Returned(Or(content, Map(<<>>)))

\* line 159: sorted(list(glob("*.yml")) + list(glob("*.yaml")))
MemberFiles(listing) ==
    LET found == GlobSuffix(listing, ".yml") \o GlobSuffix(listing, ".yaml")
    IN Items(SortedByKey([i \in 1..Len(found) |-> <<<<found[i].name>>, found[i]>>]))

\* lines 170-172
sort_key(m) ==
    LET parts == Split(m.Name)
    IN <<IF Len(parts) > 0 THEN Lower(parts[Len(parts)]) ELSE Lower(m.Name), Lower(m.Name)>>

\* line 174: sorted(members, key=sort_key)
SortedMembers(ms) == Items(SortedByKey([i \in 1..Len(ms) |-> <<sort_key(ms[i]), ms[i]>>]))

NoLocals == [call |-> "none"]

\* lines 163-167, from the outcome of lines 161-162
Collected(file, res) ==
    [members |-> IF res.raised THEN <<>> ELSE <<res.m>>,
     notes |-> IF res.raised
               THEN <<Diag(file.name, "ERROR", <<res.exc>>, 0)>>
               ELSE IF Len(res.warnings) > 0
                    THEN <<Diag(file.name, "warnings", res.warnings, 0)>>
                    ELSE <<>>,
     locals |-> IF "norm" \in DOMAIN res
                THEN [call |-> "_normalize_member", file |-> file.name, norm |-> res.norm,
                      extras |-> res.extras, name |-> res.name, email |-> res.email,
                      slug |-> res.slug, raised |-> res.raised]
                ELSE NoLocals]

\* line 162: d.items() needs a dict
NormalizeLoaded(raw) ==
    IF raw.raised THEN raw
    ELSE IF raw.val.t # "map" THEN Raised("AttributeError: items")
    ELSE _normalize_member(raw.val)

\* lines 160-167: the body of the loop for one file
CollectOne(file) == Collected(file, NormalizeLoaded(_load_yaml(file.content)))

\* Member.Research_Interests_List
Research_Interests_List(m) ==
    LET val == m.Research_Interests
    IN IF val.t = "null" THEN <<>>
       ELSE IF val.t = "list" THEN val.v ELSE <<PyStr(val)>>

\* lines 266-273: one object of members.json
JsonObject(m) ==
    [member |-> m,
     slug |-> m.id,
     email_href |-> IF Truthy(m.Email) THEN Str("mailto:" \o m.Email.v) ELSE None,
     Research_Interests_List |-> Research_Interests_List(m)]

JsonData(ms) == [i \in 1..Len(ms) |-> JsonObject(ms[i])]

\* build(), up to the glob: _get_env reads only; _collect_members stops the
\* process with SystemExit when the members directory is missing
BM_Start ==
    /\ prog = "build_members" /\ pc = "start"
    /\ IF ~fs.members_dir
       THEN /\ pc' = "done"
            /\ exit' = "SystemExit"
            /\ notes' = notes \o <<Diag("", "Members directory not found", <<>>, 0)>>
       ELSE /\ pc' = "collect"
            /\ UNCHANGED <<exit, notes>>
    /\ UNCHANGED <<prog, fs, idx, members, written, locals, valid_members, built>>

\* one pass of the loop of _collect_members
BM_CollectStep ==
    /\ prog = "build_members" /\ pc = "collect"
    /\ idx < Len(MemberFiles(fs.listing))
    /\ LET one == CollectOne(MemberFiles(fs.listing)[idx + 1])
       IN /\ members' = members \o one.members
          /\ notes' = notes \o one.notes
          /\ locals' = one.locals
    /\ idx' = idx + 1
    /\ UNCHANGED <<prog, pc, fs, written, exit, valid_members, built>>

\* the loop is over: _collect_members returns the sorted list
BM_Sort ==
    /\ prog = "build_members" /\ pc = "collect"
    /\ idx = Len(MemberFiles(fs.listing))
    /\ members' = SortedMembers(members)
    /\ pc' = "write_index"
    /\ UNCHANGED <<prog, fs, idx, notes, written, exit, locals, valid_members, built>>

\* _write_index: the page is rendered by the template engine from `members`
BM_WriteIndex ==
    /\ prog = "build_members" /\ pc = "write_index"
    /\ written' = written \o <<[path |-> "site/index.html", data |-> JsonData(members)]>>
    /\ pc' = "write_json"
    /\ UNCHANGED <<prog, fs, idx, members, notes, exit, locals, valid_members, built>>

\* _write_json
BM_WriteJson ==
    /\ prog = "build_members" /\ pc = "write_json"
    /\ written' = written \o <<[path |-> "data/members.json", data |-> JsonData(members)],
                               [path |-> "site/members.json", data |-> JsonData(members)]>>
    /\ pc' = "copy_static"
    /\ UNCHANGED <<prog, fs, idx, members, notes, exit, locals, valid_members, built>>

\* _copy_static, then the summary, then return 0
BM_CopyStaticAndReturn ==
    /\ prog = "build_members" /\ pc = "copy_static"
    /\ \E static_exists \in BOOLEAN :
          written' = IF static_exists
                     THEN written \o <<[path |-> "site/static", data |-> <<>>]>>
                     ELSE written
    /\ pc' = "done"
    /\ exit' = "0"
    /\ UNCHANGED <<prog, fs, idx, members, notes, locals, valid_members, built>>

----------------------------------------------------------------------------
(* scripts/build_site.py: the helpers                                       *)

INSTRUCTOR_REPO == "csu-climate/members"

\* load_yaml_file(filepath): yaml.safe_load(f); an empty file loads as None
load_yaml_file(content) ==
    IF content.t = "invalid" THEN Raised("yaml.YAMLError") ELSE Returned(content)

\* the last index of c in s, 0 when there is none (str.rfind, 1-based)
RFind(s, c) ==
    IF \E i \in 1..Len(s) : Char(s, i) = c
    THEN CHOOSE i \in 1..Len(s) : Char(s, i) = c /\ \A j \in (i + 1)..Len(s) : Char(s, j) # c
    ELSE 0

\* PurePath.stem: the name without its last suffix
PathStem(name) ==
    LET i == RFind(name, ".")
    IN IF 1 < i /\ i < Len(name) THEN SubSeq(name, 1, i - 1) ELSE name

\* get_member_id_from_filename(filename)
get_member_id_from_filename(filename) == PathStem(filename)

\* mapping[key] = val: in place when the key is there, appended otherwise
MapSet(m, k, val) ==
    IF Has(m, k)
    THEN Map([i \in 1..Len(m.v) |-> IF m.v[i][1] = k THEN <<k, val>> ELSE m.v[i]])
    ELSE Map(m.v \o << <<k, val>> >>)

\* urllib.parse.quote(s), safe = "/"
RECURSIVE Quote(_)
Quote(s) ==
    LET c == Head(s)
        kept == IndexIn(UpperCase \o LowerCase \o Digits \o "_.-~/", c) > 0
        hex == CASE c = ":" -> "%3A" [] c = " " -> "%20" [] c = "@" -> "%40"
                 [] c = "!" -> "%21" [] OTHER -> "%" \o c   \* no other character in CodePoints
    IN IF Len(s) = 0 THEN "" ELSE (IF kept THEN c ELSE hex) \o Quote(Tail(s))

\* the first index at which sub starts in s, 0 when there is none
Find(s, sub) ==
    IF \E i \in 1..(Len(s) + 1 - Len(sub)) : SubSeq(s, i, i + Len(sub) - 1) = sub
    THEN CHOOSE i \in 1..(Len(s) + 1 - Len(sub)) :
            /\ SubSeq(s, i, i + Len(sub) - 1) = sub
            /\ \A j \in 1..(i - 1) : SubSeq(s, j, j + Len(sub) - 1) # sub
    ELSE 0

\* urllib.parse.urlparse(url).path for a URL without query or fragment
UrlPath(url) ==
    LET i == Find(url, "://")
        rest == IF i = 0 THEN url ELSE SubSeq(url, i + 3, Len(url))
        j == Find(rest, "/")
    IN IF i = 0 THEN url ELSE IF j = 0 THEN "" ELSE SubSeq(rest, j, Len(rest))

\* PurePosixPath(path).stem: the stem of the last component
PosixStem(path) ==
    LET p == IF Len(path) > 1 /\ Char(path, Len(path)) = "/"
             THEN SubSeq(path, 1, Len(path) - 1) ELSE path
        i == RFind(p, "/")
    IN PathStem(SubSeq(p, i + 1, Len(p)))

\* "ChemCompute" in platforms, for a list or a str
InPlatforms(platforms) ==
    IF platforms.t = "list"
    THEN \E i \in 1..Len(platforms.v) :
            platforms.v[i].t = "str" /\ platforms.v[i].v = "ChemCompute"
    ELSE Find(platforms.v, "ChemCompute") > 0

\* lines 56-73: the launch URL
ChemcomputeLaunch(repo_url) ==
    "https://chemcompute.org/jupyterhub_internal/hub/user-redirect/git-pull?repo="
    \o Quote(repo_url) \o "&branch=main" \o "&urlpath="
    \o Quote("lab/tree/" \o PosixStem(UrlPath(repo_url)) \o "/")

\* a slip: the id of the file name only when the record brings none
SetMemberIdIfAbsent(member_data, member_id) ==
    IF Has(member_data, "id") THEN member_data ELSE MapSet(member_data, "id", Str(member_id))

\* line 32: member_data['id'] = member_id
SetMemberId(member_data, member_id) == MapSet(member_data, "id", Str(member_id))

\* process_member_data(member_data, member_id): the dict, None, or an exception
process_member_data(member_data, member_id) ==
    LET d1 == SetMemberId(member_data, member_id)
        d2 == MapSet(d1, "instructor_repo", Str(INSTRUCTOR_REPO))
        d3 == MapSet(d2, "instructor_repo_path", Str(member_id))
        d4 == IF Has(d3, "instructor_email") THEN d3
              ELSE MapSet(d3, "instructor_email", Str("N/A"))
    IN IF member_data.t # "map" THEN Raised("TypeError")
       ELSE IF ~Has(d4, "materials") THEN Returned(None)
       ELSE IF ~Has(d4, "platforms") THEN Raised("KeyError: platforms")
       ELSE IF Get(d4, "platforms").t \notin {"list", "str"} THEN Raised("TypeError")
       ELSE IF ~InPlatforms(Get(d4, "platforms")) THEN Returned(d4)
       ELSE IF ~Has(d4, "public_repo_url") THEN Raised("KeyError: public_repo_url")
       ELSE IF Get(d4, "public_repo_url").t # "str" THEN Raised("TypeError")
       ELSE Returned(MapSet(d4, "chemcompute_launch",
                            Str(ChemcomputeLaunch(Get(d4, "public_repo_url").v))))

----------------------------------------------------------------------------
(* build_site.py: validate_member_data                                      *)

required_fields ==
    <<"title", "description", "programming_skill", "primary_course",
      "authors", "format", "scientific_objectives",
      "cyberinfrastructure_objectives", "platforms", "materials",
      "public_repo_url">>

\* lines 188-193: the field and the type tags isinstance accepts
optional_instructor_fields ==
    << <<"student_level", {"str"}>>,
       <<"students_piloted", {"int", "float"}>>,
       <<"instructor_notes", {"str"}>>,
       <<"related_modules", {"list"}>> >>

required_material_fields == <<"title", "description", "type", "duration">>

url_fields == <<"github_url", "colab_url">>

\* a slip: the loop stops at the first field that is missing
MissingFirstOnly(m, fields) ==
    IF \E i \in 1..Len(fields) : ~Has(m, fields[i])
    THEN <<fields[CHOOSE i \in 1..Len(fields) :
                     ~Has(m, fields[i]) /\ \A j \in 1..(i - 1) : Has(m, fields[j])]>>
    ELSE <<>>

\* lines 195-198 (and 234-235): the fields of `fields` that are not keys of m,
\* in the order of `fields`
RECURSIVE MissingFrom(_, _)
MissingFrom(m, fields) ==
    IF Len(fields) = 0 THEN <<>>
    ELSE (IF Has(m, Head(fields)) THEN <<>> ELSE <<Head(fields)>>)
         \o MissingFrom(m, Tail(fields))

\* the verdict of validate_member_data: False with the line it printed, or True
Reject(d) == [raised |-> FALSE, exc |-> "", ok |-> FALSE, printed |-> <<d>>]
Accept == [raised |-> FALSE, exc |-> "", ok |-> TRUE, printed |-> <<>>]
ValidateRaised(exc) == [raised |-> TRUE, exc |-> exc, ok |-> FALSE, printed |-> <<>>]

\* lines 205-210: the optional fields of the wrong type, in the order checked
RECURSIVE WrongTypes(_, _)
WrongTypes(m, fields) ==
    IF Len(fields) = 0 THEN <<>>
    ELSE (IF Has(m, Head(fields)[1]) /\ Get(m, Head(fields)[1]).t \notin Head(fields)[2]
          THEN <<Head(fields)[1]>> ELSE <<>>)
         \o WrongTypes(m, Tail(fields))

\* line 248: not isinstance(url, str) or not url.startswith('http')
BadUrl(url) == url.t # "str" \/ ~StartsWith(url.v, "http")

\* lines 233-250 for material number i (1-based): the verdict, Accept to go on
CheckMaterial(material, filename, i) ==
    LET missing == MissingFrom(material, required_material_fields)
        bad == IF Has(material, "github_url") /\ BadUrl(Get(material, "github_url"))
               THEN <<"github_url">>
               ELSE IF Has(material, "colab_url") /\ BadUrl(Get(material, "colab_url"))
                    THEN <<"colab_url">>
                    ELSE <<>>
    IN IF material.t # "map" THEN ValidateRaised("TypeError")
       ELSE IF Len(missing) > 0
            THEN Reject(Diag(filename, "material missing required field", <<missing[1]>>, i))
       ELSE IF ~Has(material, "github_url") /\ ~Has(material, "colab_url")
            THEN Reject(Diag(filename, "material must have either github_url or colab_url", <<>>, i))
       ELSE IF Len(bad) > 0
            THEN Reject(Diag(filename, "material url must be a valid HTTP/HTTPS URL", bad, i))
       ELSE Accept

\* lines 232-250: the loop, from material number i on
RECURSIVE CheckMaterials(_, _, _)
CheckMaterials(materials, filename, i) ==
    IF i > Len(materials) THEN Accept
    ELSE LET r == CheckMaterial(materials[i], filename, i)
         IN IF r.raised \/ ~r.ok THEN r ELSE CheckMaterials(materials, filename, i + 1)

\* validate_member_data(member_data, filename)
validate_member_data(member_data, filename) ==
    LET missing_fields == MissingFrom(member_data, required_fields)
        wrong == WrongTypes(member_data, optional_instructor_fields)
        materials == Get(member_data, "materials")
        checked == CheckMaterials(materials.v, filename, 1)
    IN IF member_data.t # "map" THEN ValidateRaised("TypeError")
       ELSE IF Len(missing_fields) > 0
            THEN Reject(Diag(filename, "is missing required fields", missing_fields, 0))
       ELSE IF Len(wrong) > 0
            THEN Reject(Diag(filename, "field has the wrong type", <<wrong[1]>>, 0))
       ELSE IF Has(member_data, "related_modules")
               /\ \E i \in 1..Len(Get(member_data, "related_modules").v) :
                     Get(member_data, "related_modules").v[i].t # "str"
            THEN Reject(Diag(filename, "related_modules should be a list of strings", <<>>, 0))
       ELSE IF Has(member_data, "notebook") \/ Has(member_data, "notebooks")
            THEN Reject(Diag(filename, "uses legacy notebook/notebooks format", <<>>, 0))
       ELSE IF materials.t # "list"
            THEN Reject(Diag(filename, "materials field must be a list", <<>>, 0))
       ELSE IF Len(materials.v) = 0
            THEN Reject(Diag(filename, "materials list cannot be empty", <<>>, 0))
       ELSE IF checked.raised \/ ~checked.ok THEN checked
       ELSE IF Get(member_data, "authors").t \notin {"list", "str"}
            THEN Reject(Diag(filename, "authors field must be a list or string", <<>>, 0))
       ELSE Accept

----------------------------------------------------------------------------
(* build_site.py: build_members_json, build_member_pages, copy_static_files *)
(* and main                                                                 *)

\* line 287: list(members_dir.glob('*.yml')), in directory order
YamlFiles == GlobSuffix(fs.listing, ".yml")

\* line 95: members.sort(key=lambda x: x['title']); the titles are strings
SortedByTitle(ms) ==
    Items(SortedByKey([i \in 1..Len(ms) |-> <<<<Get(ms[i], "title").v>>, ms[i]>>]))

\* lines 117-135: one page per member
MemberPages(ms) ==
    [i \in 1..Len(ms) |->
        [path |-> "site/members/" \o Get(ms[i], "id").v \o "/index.html", data |-> <<ms[i]>>]]

\* lines 140-176: the four things copy_static_files copies when they exist
StaticSources == <<"index.html", "theme.css", "act-cms-logo.svg", "static">>

RECURSIVE Copied(_, _)
Copied(sources, present) ==
    IF Len(sources) = 0 THEN <<>>
    ELSE (IF Head(sources) \in present
          THEN <<[path |-> "site/" \o Head(sources), data |-> <<>>]>> ELSE <<>>)
         \o Copied(Tail(sources), present)

\* main, lines 274-292: mkdir of the output directory, then the three checks
BS_Start ==
    /\ prog = "build_site" /\ pc = "start"
    /\ IF ~fs.members_dir
       THEN /\ notes' = notes \o <<Diag("", "Member directory not found", <<>>, 0)>>
            /\ exit' = "1" /\ pc' = "done"
       ELSE IF ~fs.templates_dir
       THEN /\ notes' = notes \o <<Diag("", "Templates directory not found", <<>>, 0)>>
            /\ exit' = "1" /\ pc' = "done"
       ELSE IF Len(YamlFiles) = 0
       THEN /\ notes' = notes \o <<Diag("", "No .yml files found", <<>>, 0)>>
            /\ exit' = "1" /\ pc' = "done"
       ELSE /\ pc' = "validate"
            /\ UNCHANGED <<notes, exit>>
    /\ UNCHANGED <<prog, fs, idx, members, written, locals, valid_members, built>>

\* main, lines 296-299: one pass of the validation loop; nothing catches an
\* exception of load_yaml_file or validate_member_data here
BS_ValidateStep ==
    /\ prog = "build_site" /\ pc = "validate"
    /\ idx < Len(YamlFiles)
    /\ LET file == YamlFiles[idx + 1]
           loaded == load_yaml_file(file.content)
           verdict == IF loaded.raised THEN ValidateRaised(loaded.exc)
                      ELSE validate_member_data(loaded.val, file.name)
       IN IF verdict.raised
          THEN /\ exit' = "uncaught" /\ pc' = "done"
               /\ locals' = [call |-> "validate_member_data", file |-> file.name,
                             raised |-> TRUE, ok |-> FALSE]
               /\ UNCHANGED <<idx, notes, valid_members>>
          ELSE /\ notes' = notes \o verdict.printed
               /\ valid_members' = (valid_members /\ verdict.ok)
               /\ idx' = idx + 1
               /\ locals' = [call |-> "validate_member_data", file |-> file.name,
                             raised |-> FALSE, ok |-> verdict.ok]
               /\ UNCHANGED <<exit, pc>>
    /\ UNCHANGED <<prog, fs, members, written, built>>

\* main, lines 301-304: the gate behind the validation loop
BS_Gate ==
    /\ prog = "build_site" /\ pc = "validate"
    /\ idx = Len(YamlFiles)
    /\ IF ~valid_members
       THEN /\ notes' = notes \o <<Diag("", "Some member files have validation errors", <<>>, 0)>>
            /\ exit' = "1" /\ pc' = "done"
       ELSE /\ pc' = "build_json"
            /\ UNCHANGED <<notes, exit>>
    /\ UNCHANGED <<prog, fs, idx, members, written, locals, valid_members, built>>

\* a slip: members.json is rewritten on every pass of the loop, as each record
\* is appended, while record files are still to be read
BS_BuildStepWriting ==
    /\ prog = "build_site" /\ pc = "build_json"
    /\ built < Len(YamlFiles)
    /\ LET file == YamlFiles[built + 1]
           loaded == load_yaml_file(file.content)
           processed == IF loaded.raised THEN loaded
                        ELSE process_member_data(loaded.val, get_member_id_from_filename(file.name))
       IN IF processed.raised
          THEN /\ notes' = notes \o <<Diag("", "Build failed", <<processed.exc>>, 0)>>
               /\ exit' = "1" /\ pc' = "done"
               /\ UNCHANGED <<built, members, written>>
          ELSE IF processed.val.t = "null"
          THEN /\ notes' = notes \o <<Diag(file.name, "Skipping due to processing errors", <<>>, 0)>>
               /\ built' = built + 1
               /\ UNCHANGED <<exit, pc, members, written>>
          ELSE /\ members' = members \o <<processed.val>>
               /\ written' = written \o <<[path |-> "site/members.json", data |-> members']>>
               /\ built' = built + 1
               /\ UNCHANGED <<exit, pc, notes>>
    /\ UNCHANGED <<prog, fs, idx, locals, valid_members>>

\* build_members_json, lines 82-92: one pass of its loop; main's try catches
\* what it raises (lines 326-330)
BS_BuildStep ==
    /\ prog = "build_site" /\ pc = "build_json"
    /\ built < Len(YamlFiles)
    /\ LET file == YamlFiles[built + 1]
           loaded == load_yaml_file(file.content)
           processed == IF loaded.raised THEN loaded
                        ELSE process_member_data(loaded.val, get_member_id_from_filename(file.name))
       IN IF processed.raised
          THEN /\ notes' = notes \o <<Diag("", "Build failed", <<processed.exc>>, 0)>>
               /\ exit' = "1" /\ pc' = "done"
               /\ UNCHANGED <<built, members>>
          ELSE IF processed.val.t = "null"
          THEN /\ notes' = notes \o <<Diag(file.name, "Skipping due to processing errors", <<>>, 0)>>
               /\ built' = built + 1
               /\ UNCHANGED <<exit, pc, members>>
          ELSE /\ members' = members \o <<processed.val>>
               /\ built' = built + 1
               /\ UNCHANGED <<exit, pc, notes>>
    /\ UNCHANGED <<prog, fs, idx, written, locals, valid_members>>

\* build_members_json, lines 94-103, and main, lines 310-312
BS_SortAndWriteJson ==
    /\ prog = "build_site" /\ pc = "build_json"
    /\ built = Len(YamlFiles)
    /\ members' = SortedByTitle(members)
    /\ written' = written \o <<[path |-> "site/members.json", data |-> members']>>
    /\ IF Len(members) = 0
       THEN /\ notes' = notes \o <<Diag("", "No valid members found after processing", <<>>, 0)>>
            /\ exit' = "1" /\ pc' = "done"
       ELSE /\ pc' = "pages"
            /\ UNCHANGED <<notes, exit>>
    /\ UNCHANGED <<prog, fs, idx, locals, valid_members, built>>

\* build_member_pages; env.get_template raises when templates/member.html is
\* missing, which main's try catches
BS_Pages ==
    /\ prog = "build_site" /\ pc = "pages"
    /\ \E template_found \in BOOLEAN :
          IF template_found
          THEN /\ written' = written \o MemberPages(members)
               /\ pc' = "copy_static"
               /\ UNCHANGED <<notes, exit>>
          ELSE /\ notes' = notes \o <<Diag("", "Build failed", <<"TemplateNotFound">>, 0)>>
               /\ exit' = "1" /\ pc' = "done"
               /\ UNCHANGED written
    /\ UNCHANGED <<prog, fs, idx, members, locals, valid_members, built>>

\* copy_static_files, then return 0
BS_CopyStaticAndReturn ==
    /\ prog = "build_site" /\ pc = "copy_static"
    /\ \E present \in SUBSET {StaticSources[i] : i \in 1..Len(StaticSources)} :
          written' = written \o Copied(StaticSources, present)
    /\ exit' = "0" /\ pc' = "done"
    /\ UNCHANGED <<prog, fs, idx, members, notes, locals, valid_members, built>>

----------------------------------------------------------------------------
(* The inputs: the file systems a run may start from                        *)

\* the sequences over 1..n of length at most max, and the injective ones
SeqsUpTo(n, max) == UNION {[1..k -> 1..n] : k \in 0..max}
InjSeqsUpTo(n, max) == {q \in SeqsUpTo(n, max) : \A i, j \in 1..Len(q) : q[i] = q[j] => i = j}

FileNames == <<"bob.yml", "a.b.yml", "ann.yaml", "cy.yml">>

\* build_members.py: whole files
BMCoreDocs ==
    << Invalid,
       None,
       Map(<< <<"name", Str("Bob Zephyr")>> >>),
       Map(<< <<"Name", Str("Ann Zephyr")>>, <<"email", Str("ann@x.org")>> >>),
       Map(<< <<"name", Str("Ann Lee")>> >>) >>

\* build_members.py: the keys and values of a record drawn key by key
BMKeys ==
    <<"Name", "email", "slug", " Dept ", "department", "campus_dept",
      "Research Interests", "nickname">>

BMValues == <<Str("Ann Lee"), Str("")>>

\* build_members.py: a file that holds no mapping, and records with the keys
\* that share a canonical field
BMSpecialDocs ==
    { Str("just text"),
      Map(<< <<"name", Str("Ann Lee")>>, <<"Research Interests", Str("ice")>>,
             <<"research_interests", List(<<Str("snow")>>)>>, <<"research", Str("rain")>> >>),
      Map(<< <<" Dept ", Str("Math")>>, <<"department", Str("Physics")>>,
             <<"campus_dept", Str("Art")>>, <<"Title", Int("7")>> >>) }

BMWideDocs ==
    {Map([i \in 1..Len(ks) |-> <<BMKeys[ks[i]], BMValues[vs[i]]>>]) :
        <<ks, vs>> \in {p \in InjSeqsUpTo(Len(BMKeys), MaxKeys) \X SeqsUpTo(Len(BMValues), MaxKeys) :
                          Len(p[1]) = Len(p[2])}}
    \cup BMSpecialDocs

\* build_site.py: one entry of a materials list
MaterialBase ==
    << <<"title", Str("Intro")>>, <<"description", Str("d")>>,
       <<"type", Str("notebook")>>, <<"duration", Str("1h")>> >>

Materials ==
    << Map(MaterialBase \o << <<"github_url", Str("https://x")>> >>),
       Map(MaterialBase \o << <<"colab_url", Str("http://c")>> >>),
       Map(MaterialBase),
       Map(MaterialBase \o << <<"github_url", Str("not-a-url")>> >>),
       Map(MaterialBase \o << <<"github_url", Str("httpx")>> >>),
       Map(MaterialBase \o << <<"colab_url", Int("7")>> >>),
       Map(MaterialBase \o << <<"github_url", Str("")>> >>),
       Map(MaterialBase \o << <<"github_url", Str("https://x")>>, <<"colab_url", Str("ftp://c")>> >>),
       Map(SubSeq(MaterialBase, 1, 3) \o << <<"github_url", Str("https://x")>> >>),
       None >>

\* build_site.py: a record that passes validate_member_data
SiteDoc(title, platforms, materials) ==
    Map(<< <<"title", Str(title)>>, <<"description", Str("d")>>,
           <<"programming_skill", Str("none")>>, <<"primary_course", Str("c")>>,
           <<"authors", Str("A. Author")>>, <<"format", Str("lab")>>,
           <<"scientific_objectives", List(<<Str("s")>>)>>,
           <<"cyberinfrastructure_objectives", List(<<Str("c")>>)>>,
           <<"platforms", platforms>>, <<"materials", materials>>,
           <<"public_repo_url", Str("https://github.com/o/repo.git")>> >>)

GoodMaterials == List(<<Materials[1]>>)

ValidDoc == SiteDoc("Bob Zephyr", List(<<Str("Colab")>>), GoodMaterials)

\* the mapping without the keys in `dropped`
RECURSIVE WithoutPairs(_, _)
WithoutPairs(pairs, dropped) ==
    IF Len(pairs) = 0 THEN <<>>
    ELSE (IF Head(pairs)[1] \in dropped THEN <<>> ELSE <<Head(pairs)>>)
         \o WithoutPairs(Tail(pairs), dropped)

Without(m, dropped) == Map(WithoutPairs(m.v, dropped))

\* build_site.py: whole files
BSCoreDocs ==
    << Invalid,
       None,
       Map(<<>>),
       MapSet(ValidDoc, "id", Str("custom")),
       SiteDoc("Ann Zephyr", List(<<Str("ChemCompute")>>), GoodMaterials),
       SiteDoc("Bob Lee", List(<<>>), List(<<Materials[2], Materials[1]>>)),
       SiteDoc("Cy Young", Int("7"), GoodMaterials),
       MapSet(MapSet(SiteDoc("Cy Young", List(<<>>), List(<<Materials[3]>>)),
                     "student_level", Int("3")), "authors", Int("7")) >>

\* build_site.py: records of the legacy format, with platforms as one string,
\* and with optional fields
BSSpecialDocs ==
    { MapSet(ValidDoc, "notebook", Str("nb.ipynb")),
      SiteDoc("Ann Zephyr", Str("Colab and ChemCompute"), GoodMaterials),
      MapSet(ValidDoc, "related_modules", List(<<Str("m"), Int("7")>>)),
      MapSet(ValidDoc, "students_piloted", Str("many")),
      MapSet(ValidDoc, "materials", List(<<>>)),
      MapSet(ValidDoc, "materials", Str("none")) }

\* build_site.py: records with any set of required fields missing, and records
\* with any short materials list
BSWideDocs ==
    {Without(ValidDoc, dropped) : dropped \in SUBSET {required_fields[i] : i \in 1..Len(required_fields)}}
    \cup
    {MapSet(ValidDoc, "materials", List([i \in 1..Len(ms) |-> Materials[ms[i]]])) :
        ms \in SeqsUpTo(Len(Materials), MaxMaterials)}
    \cup BSSpecialDocs

CoreDocs(p) == IF p = "build_members" THEN BMCoreDocs ELSE BSCoreDocs
WideDocs(p) == IF p = "build_members" THEN BMWideDocs ELSE BSWideDocs

\* directories of up to MaxFiles files with core documents, in any directory
\* order, and directories of one file with a record drawn part by part
Listings(p) ==
    {[i \in 1..Len(ns) |-> [name |-> FileNames[ns[i]], content |-> CoreDocs(p)[ds[i]]]] :
        <<ns, ds>> \in {q \in InjSeqsUpTo(Len(FileNames), MaxFiles)
                                 \X SeqsUpTo(Len(CoreDocs(p)), MaxFiles) : Len(q[1]) = Len(q[2])}}
    \cup
    {<<[name |-> FileNames[1], content |-> doc]>> : doc \in WideDocs(p)}

Init ==
    /\ prog \in {"build_members", "build_site"}
    /\ \/ /\ fs \in {[members_dir |-> TRUE, templates_dir |-> TRUE, listing |-> l] :
                        l \in Listings(prog)}
       \/ /\ fs \in {[members_dir |-> m, templates_dir |-> t, listing |-> <<>>] :
                        m, t \in BOOLEAN}
    /\ pc = "start"
    /\ idx = 0
    /\ members = <<>>
    /\ notes = <<>>
    /\ written = <<>>
    /\ exit = "running"
    /\ locals = NoLocals
    /\ valid_members = TRUE
    /\ built = 0

Next ==
    \/ BM_Start
    \/ BM_CollectStep
    \/ BM_Sort
    \/ BM_WriteIndex
    \/ BM_WriteJson
    \/ BM_CopyStaticAndReturn
    \/ BS_Start
    \/ BS_ValidateStep
    \/ BS_Gate
    \/ BS_BuildStep
    \/ BS_SortAndWriteJson
    \/ BS_Pages
    \/ BS_CopyStaticAndReturn

Spec == Init /\ [][Next]_vars

----------------------------------------------------------------------------
(* What the claims speak of                                                 *)

\* the input record files of the running script, in the order it reads them
InputFiles == IF prog = "build_members" THEN MemberFiles(fs.listing) ELSE YamlFiles

\* the ids of a list of output records
IdsOf(ms) ==
    [i \in 1..Len(ms) |-> IF prog = "build_members" THEN ms[i].id ELSE Get(ms[i], "id").v]

\* the ids of the records of a written members.json
JsonIds(data) ==
    [i \in 1..Len(data) |->
        IF prog = "build_members" THEN data[i].member.id ELSE Get(data[i], "id").v]

IsMembersJson(w) == EndsWith(w.path, "members.json")

WrittenJson == {written[i] : i \in {j \in 1..Len(written) : IsMembersJson(written[j])}}

DistinctNonEmpty(ids) ==
    /\ \A i \in 1..Len(ids) : Len(ids[i]) > 0
    /\ \A i, j \in 1..Len(ids) : ids[i] = ids[j] => i = j

\* the diagnostics keyed to one file, in the order they were issued
DiagsOf(filename) == SelectSeq(notes, LAMBDA d : d.file = filename)

----------------------------------------------------------------------------
(* C1: ids are unique in the output                                         *)

----------------------------------------------------------------------------
(* C2: _slugify                                                             *)

\* C2: _slugify returns a value for every string it is given, the value is a
\* fixed point of _slugify, and the empty text gives "member": stated of the
\* call _normalize_member makes at line 128.
C2_SlugifyTotalIdempotent ==
    locals.call = "_normalize_member" =>
        /\ ~locals.slug.raised
        /\ Len(locals.slug.val) > 0
        /\ _slugify(Str(locals.slug.val)) = locals.slug
        /\ (locals.name = "" /\ locals.email = "" /\ "id" \notin DOMAIN locals.norm
               => locals.slug.val = "member")

----------------------------------------------------------------------------
(* C4: missing required fields under build_site's validation                *)

\* the required fields a record lacks, in the order of the list at lines 180-185
LackedFields(doc) == SelectSeq(required_fields, LAMBDA f : ~Has(doc, f))

\* the record of the file is in no output
AbsentFromOutput(filename) ==
    /\ \A i \in 1..Len(members) : IdsOf(members)[i] # PathStem(filename)
    /\ \A w \in WrittenJson : \A i \in 1..Len(w.data) : JsonIds(w.data)[i] # PathStem(filename)

\* C4: once build_site has validated a file whose record lacks required
\* fields, the diagnostics keyed to that file are exactly one, it names every
\* field the record lacks, and the record is in no output.
C4_MissingFieldsOneDiagnostic ==
    prog = "build_site" =>
        \A i \in 1..idx :
            LET file == YamlFiles[i]
            IN (file.content.t = "map" /\ Len(LackedFields(file.content)) > 0) =>
                  /\ DiagsOf(file.name)
                        = <<Diag(file.name, "is missing required fields",
                                 LackedFields(file.content), 0)>>
                  /\ AbsentFromOutput(file.name)

\* a record lacking several required fields has been validated and the run
\* has gone on to its end
C4_Witness ==
    /\ prog = "build_site" /\ pc = "done" /\ idx = Len(YamlFiles)
    /\ \E i \in 1..idx :
          /\ YamlFiles[i].content.t = "map"
          /\ Len(LackedFields(YamlFiles[i].content)) > 1
          /\ Len(DiagsOf(YamlFiles[i].name)) = 1

----------------------------------------------------------------------------
(* C3: the order of the assembled collection                                *)

\* the name a record is listed under: Name in build_members, title in build_site
ListedName(rec) == IF prog = "build_members" THEN rec.Name ELSE Get(rec, "title").v

\* the key of the claim: the last whitespace-delimited token of the name, then
\* the full name, both without case
LastNameKey(name) ==
    LET parts == Split(name)
    IN <<Lower(IF Len(parts) > 0 THEN parts[Len(parts)] ELSE name), Lower(name)>>

\* the name a record file brings, as the key loop and line 123 read it
BroughtName(file) ==
    IF prog = "build_members"
    THEN StrippedField(KeyLoop(file.content.v, EmptyDict, EmptyDict).norm, "Name")
    ELSE Get(file.content, "title").v

\* the names of the input records, in the order the claim gives them
ClaimedOrder(files) ==
    Items(SortedByKey([i \in 1..Len(files) |->
                          <<LastNameKey(BroughtName(files[i])), BroughtName(files[i])>>]))

\* every input file holds a record with a name
AllNamed ==
    \A i \in 1..Len(InputFiles) :
        /\ InputFiles[i].content.t = "map"
        /\ IF prog = "build_members" THEN Len(BroughtName(InputFiles[i])) > 0
           ELSE Has(InputFiles[i].content, "title")

\* C3: when every input file holds a named record, a written members.json
\* lists those records by (last token of the name, full name), both without
\* case, records with equal keys in the order they were read.
C3_OrderedByLastName ==
    AllNamed =>
        \A w \in WrittenJson :
            [i \in 1..Len(w.data) |->
                ListedName(IF prog = "build_members" THEN w.data[i].member ELSE w.data[i])]
              = ClaimedOrder(InputFiles)

----------------------------------------------------------------------------
(* C5: the links of a materials entry                                       *)

\* a non-empty string beginning with an HTTP(S) scheme
HasHttpScheme(url) ==
    url.t = "str" /\ (StartsWith(url.v, "http://") \/ StartsWith(url.v, "https://"))

\* the entry has no link, or a link that is present and has no HTTP(S) scheme
LinkDefect(material) ==
    \/ ~Has(material, "github_url") /\ ~Has(material, "colab_url")
    \/ Has(material, "github_url") /\ ~HasHttpScheme(Get(material, "github_url"))
    \/ Has(material, "colab_url") /\ ~HasHttpScheme(Get(material, "colab_url"))

\* C5: once build_site has validated a record, every entry of its materials
\* list with a link defect has the record rejected with a diagnostic keyed to
\* the file; and a diagnostic about a material names a position of the list.
C5_MaterialLinksChecked ==
    prog = "build_site" =>
        \A i \in 1..idx :
            LET doc == YamlFiles[i].content
                diags == DiagsOf(YamlFiles[i].name)
            IN (/\ doc.t = "map" /\ Has(doc, "materials")
                /\ Get(doc, "materials").t = "list"
                /\ \A k \in 1..Len(Get(doc, "materials").v) : Get(doc, "materials").v[k].t = "map")
               => /\ (\E k \in 1..Len(Get(doc, "materials").v) : LinkDefect(Get(doc, "materials").v[k]))
                        => Len(diags) > 0
                  /\ \A n \in 1..Len(diags) :
                        diags[n].pos # 0 => diags[n].pos \in 1..Len(Get(doc, "materials").v)

----------------------------------------------------------------------------
(* C6: no input files                                                       *)

\* C6: when the directories exist and the input directory holds no input
\* record file, a finished run has a non-zero exit, has written nothing, and
\* has reported that there are no input files.
C6_NoInputFilesIsFatal ==
    (fs.members_dir /\ fs.templates_dir /\ Len(InputFiles) = 0) =>
        /\ written = <<>>
        /\ pc = "done" =>
              /\ exit # "0"
              /\ \E n \in 1..Len(notes) : notes[n].kind = "No .yml files found"

----------------------------------------------------------------------------
(* C7: the derivation of the id                                             *)

\* the value of the record's explicit id or slug field, "" when it has none
ExplicitId(doc) ==
    IF Has(doc, "id") /\ Truthy(Get(doc, "id")) THEN PyStr(Get(doc, "id"))
    ELSE IF Has(doc, "slug") /\ Truthy(Get(doc, "slug")) THEN PyStr(Get(doc, "slug"))
    ELSE ""

\* the input is two files, each holding just the name "Ann Lee"
TwoAnnLees ==
    /\ Len(InputFiles) = 2
    /\ \A i \in 1..2 :
          /\ InputFiles[i].content.t = "map"
          /\ Len(InputFiles[i].content.v) = 1
          /\ Lower(Strip(InputFiles[i].content.v[1][1])) = "name"
          /\ InputFiles[i].content.v[1][2] = Str("Ann Lee")

\* C7: in a written members.json, a record whose file gives an explicit id is
\* listed under that id; and two files that hold just the name "Ann Lee" give
\* two records with distinct ids.
C7_IdByPriority ==
    \A w \in WrittenJson :
        /\ \A i \in 1..Len(InputFiles) :
              (InputFiles[i].content.t = "map" /\ ExplicitId(InputFiles[i].content) # "")
                 => \E n \in 1..Len(w.data) :
                       JsonIds(w.data)[n] = ExplicitId(InputFiles[i].content)
        /\ TwoAnnLees => Len(w.data) = 2 /\ DistinctNonEmpty(JsonIds(w.data))

----------------------------------------------------------------------------
(* C8: one malformed file                                                   *)

\* the file is not valid YAML, or is empty
Malformed(file) == file.content.t \in {"invalid", "null"}

\* C8: no run ends in an uncaught exception; a finished run has read every
\* input file, and has a diagnostic keyed to each malformed one.
C8_BadFileOnlyDropsItself ==
    (fs.members_dir /\ fs.templates_dir) =>
        /\ exit # "uncaught"
        /\ pc = "done" =>
              /\ idx = Len(InputFiles)
              /\ \A i \in 1..Len(InputFiles) :
                    Malformed(InputFiles[i]) => Len(DiagsOf(InputFiles[i].name)) > 0

----------------------------------------------------------------------------
(* C9: the resolution of key synonyms                                       *)

\* the synonyms of each canonical field, as the claim reads them once
\* "campus_dept" is left out
ListedSynonyms ==
    [Name |-> {"name"}, Email |-> {"email"}, Campus |-> {"campus"},
     College |-> {"college"}, Department |-> {"department", "dept"},
     Title |-> {"title"},
     Research_Interests |-> {"research interests", "research_interests", "research", "focus"},
     Teaching_Interests |-> {"teaching interests", "teaching_interests", "teaching"},
     Sustainability_Contributions |->
         {"sustainability contributions", "sustainability_contributions", "contributions"},
     Notes |-> {"notes"}, Photo |-> {"photo", "image"}, Website |-> {"website", "url"},
     id |-> {"id", "slug"}]

\* the synonyms as the claim words them, "campus_dept" among those of Department
ClaimedSynonyms ==
    [ListedSynonyms EXCEPT !.Department = @ \cup {"campus_dept"}]

\* the mapping the normalizer was called with: the content of the file, {} for
\* an empty file
DocOf(filename) ==
    LET i == CHOOSE i \in 1..Len(InputFiles) : InputFiles[i].name = filename
    IN IF InputFiles[i].content.t = "null" THEN Map(<<>>) ELSE InputFiles[i].content

SameValue(a, b) == a.t = b.t /\ a.v = b.v

\* the canonical fields a key is a synonym of, compared trimmed and without case
FieldsWith(table, key) == {canon \in DOMAIN table : key \in table[canon]}

FieldsOf(table, k) == FieldsWith(table, Lower(Strip(k)))

\* the canonical fields of each key of a mapping, in file order
RECURSIVE FieldsOfKeys(_, _)
FieldsOfKeys(table, pairs) ==
    IF Len(pairs) = 0 THEN <<>>
    ELSE <<FieldsOf(table, pairs[1][1])>> \o FieldsOfKeys(table, Tail(pairs))

\* the positions whose key is a synonym of canon
Hits(fields, canon) == {i \in 1..Len(fields) : canon \in fields[i]}

Last(S) == CHOOSE i \in S : \A j \in S : j <= i

\* norm holds, for each canonical field, the value of the last key of d that is
\* one of its synonyms, and no field without such a key; extras holds exactly
\* the keys that are a synonym of nothing, as written, each with its value
ResolvesAs(fields, canons, d, norm, extras) ==
    /\ \A canon \in canons :
          IF Hits(fields, canon) = {} THEN canon \notin DOMAIN norm
          ELSE /\ canon \in DOMAIN norm
               /\ SameValue(norm[canon], d.v[Last(Hits(fields, canon))][2])
    /\ DOMAIN norm \subseteq canons
    /\ \A i \in 1..Len(d.v) :
          fields[i] = {} =>
              /\ d.v[i][1] \in DOMAIN extras
              /\ \E j \in i..Len(d.v) :
                    d.v[j][1] = d.v[i][1] /\ SameValue(extras[d.v[i][1]], d.v[j][2])
    /\ \A k \in DOMAIN extras :
          \E i \in 1..Len(d.v) : d.v[i][1] = k /\ fields[i] = {}

Resolves(table, d, norm, extras) ==
    ResolvesAs(FieldsOfKeys(table, d.v), DOMAIN table, d, norm, extras)

----------------------------------------------------------------------------
(* C10: the fields of a Member                                              *)

ScalarFields ==
    {"Email", "Campus", "College", "Department", "Title", "Notes", "Photo", "Website"}

\* every scalar field is None or a non-empty string, and Name is not empty
FieldsFilled(m) ==
    /\ Len(m.Name) > 0
    /\ \A f \in ScalarFields :
          m[f].t = "null" \/ (m[f].t = "str" /\ Len(m[f].v) > 0)

\* C10: the normalizer returns a Member for every mapping it is called with,
\* and no Member of the collection has an empty Name or an empty string in a
\* scalar field.
C10_MemberFieldsNeverEmpty ==
    /\ locals.call = "_normalize_member" => ~locals.raised
    /\ \A n \in 1..Len(members) : prog = "build_members" => FieldsFilled(members[n])

----------------------------------------------------------------------------
(* C11: a record that breaks several constraints                            *)

\* the entry lacks a required field, has no link, or has a link the validator
\* does not take
MaterialDefect(material) ==
    \/ Len(MissingFrom(material, required_material_fields)) > 0
    \/ ~Has(material, "github_url") /\ ~Has(material, "colab_url")
    \/ Has(material, "github_url") /\ BadUrl(Get(material, "github_url"))
    \/ Has(material, "colab_url") /\ BadUrl(Get(material, "colab_url"))

\* the materials of the record are a list of mappings
MaterialsListed(doc) ==
    /\ Get(doc, "materials").t = "list"
    /\ \A k \in 1..Len(Get(doc, "materials").v) : Get(doc, "materials").v[k].t = "map"

\* C11: once build_site has validated a record that has every required field,
\* the diagnostics keyed to its file name every optional field of the wrong
\* type, the position of every defective materials entry, and a wrong shape
\* of authors; and a run that ends on rejected records has validated every
\* file.
C11_EveryViolationNamed ==
    prog = "build_site" =>
        /\ \A i \in 1..idx :
              LET doc == YamlFiles[i].content
                  diags == DiagsOf(YamlFiles[i].name)
              IN (doc.t = "map" /\ Len(LackedFields(doc)) = 0) =>
                    /\ \A f \in {WrongTypes(doc, optional_instructor_fields)[n] :
                                    n \in 1..Len(WrongTypes(doc, optional_instructor_fields))} :
                          \E n \in 1..Len(diags) :
                              /\ diags[n].kind = "field has the wrong type"
                              /\ diags[n].fields = <<f>>
                    /\ MaterialsListed(doc) =>
                          \A k \in 1..Len(Get(doc, "materials").v) :
                              MaterialDefect(Get(doc, "materials").v[k]) =>
                                  \E n \in 1..Len(diags) : diags[n].pos = k
                    /\ Get(doc, "authors").t \notin {"list", "str"} =>
                          \E n \in 1..Len(diags) :
                              diags[n].kind = "authors field must be a list or string"
        /\ (pc = "done" /\ exit = "1" /\ ~valid_members) => idx = Len(YamlFiles)

----------------------------------------------------------------------------
(* C12: reading comes before writing                                        *)

\* the positions of a run at which record files are still read and assembled
ReadingPositions == {"start", "collect", "validate", "build_json"}

\* the collection as its sort leaves it
Assembled(ms) == IF prog = "build_members" THEN SortedMembers(ms) ELSE SortedByTitle(ms)

\* C12: once anything has been written, the run is past every position at
\* which a record file is read, every input file has been read by every loop
\* over the files, the collection is in the order its sort gives, and every
\* written members.json lists the collection in that order.
C12_ReadsBeforeWrites ==
    written # <<>> =>
        /\ pc \notin ReadingPositions
        /\ idx = Len(InputFiles)
        /\ prog = "build_site" => built = Len(YamlFiles)
        /\ IdsOf(Assembled(members)) = IdsOf(members)
        /\ \A w \in WrittenJson : JsonIds(w.data) = IdsOf(members)

\* build_site has read two record files, put the second before the first, and
\* written members.json and the member pages
C12_Witness ==
    /\ prog = "build_site"
    /\ Len(YamlFiles) = 2
    /\ Len(written) >= 3
    /\ \E w \in WrittenJson :
          /\ Len(w.data) = 2
          /\ JsonIds(w.data)[1] = PathStem(YamlFiles[2].name)

----------------------------------------------------------------------------
(* C13: validation as a gate over the batch                                 *)

\* validate_member_data returns False for the file
FailsValidation(file) ==
    /\ file.content.t = "map"
    /\ ~validate_member_data(file.content, file.name).raised
    /\ ~validate_member_data(file.content, file.name).ok

\* validate_member_data returns True for the file
PassesValidation(file) ==
    /\ file.content.t = "map"
    /\ ~validate_member_data(file.content, file.name).raised
    /\ validate_member_data(file.content, file.name).ok

IsMemberPage(w) == StartsWith(w.path, "site/members/")

\* C13: in build_site with its directories in place, once some .yml file has
\* failed validation no members.json and no member page is ever written and a
\* finished run has returned 1 with every file validated; and a run that has
\* returned 0 had every file pass, and its members.json holds one entry per
\* file, with the stems of the file names as ids.
C13_ValidationGate ==
    (prog = "build_site" /\ fs.members_dir /\ fs.templates_dir) =>
        /\ (\E i \in 1..idx : FailsValidation(YamlFiles[i])) =>
              /\ \A n \in 1..Len(written) :
                    ~IsMembersJson(written[n]) /\ ~IsMemberPage(written[n])
              /\ pc = "done" => exit = "1" /\ idx = Len(YamlFiles)
        /\ exit = "0" =>
              /\ \A i \in 1..Len(YamlFiles) : PassesValidation(YamlFiles[i])
              /\ \A w \in WrittenJson :
                    /\ Len(w.data) = Len(YamlFiles)
                    /\ \A i \in 1..Len(YamlFiles) :
                          \E n \in 1..Len(w.data) :
                              JsonIds(w.data)[n] = PathStem(YamlFiles[i].name)
              /\ WrittenJson # {}

============================================================================
